---- MODULE Spec2Model ----
(***************************************************************************)
(* Model of the WebAuthn relying-party server (server/src/app.ts).         *)
(*                                                                         *)
(* The server is a single Node.js process.  Each route handler runs        *)
(* synchronously up to its `await` (the call into the WebAuthn library),   *)
(* where other handlers may run, and then synchronously to its response.   *)
(* A handler is therefore two actions: XStart (request received, up to the *)
(* await; an early `return res.status(...)` ends the call in that same     *)
(* step) and XDone (from the await to the response).                       *)
(***************************************************************************)
EXTENDS Integers, Sequences, FiniteSets, Bags, TLC

\* ------------------------------------------------------------ bounds
MaxChallenges == 3      \* challenges the library generates in one run
MaxInFlight   == 2      \* handlers that may be suspended at an await at once
MaxCounter    == 2      \* largest signature counter a response reports
MaxAuthenticators == 2  \* credentials registered in one run, over all users
MaxOverlapAuthenticators == 1  \* the same, in the runs where handlers overlap

\* ------------------------------------------------------------ value sets
Usernames      == {"alice", "bob"}
CredIDs        == {"c1", "c2"}
Keys           == {"k1", "k2"}
Counters       == 0..MaxCounter
Challenges     == 1..MaxChallenges

NoChallenge == 0                                \* currentChallenge === undefined
origin      == "http://localhost:5173"
Origins     == {origin, "https://evil.example"}

\* The key pair an authenticator holds for a credential ID.
KeyOf(id) == IF id = "c1" THEN "k1" ELSE "k2"

\* A credential response as posted by the client: the fields the handlers and
\* the verifier read.  `signedBy` is the key the response is signed with (for an
\* attestation: the public key it carries).
Genuine ==
  { r \in [id : CredIDs, challenge : Challenges, origin : {origin}, signedBy : Keys,
           counter : Counters, malformed : {FALSE}] : r.signedBy = KeyOf(r.id) }

\* A genuine response relayed from another origin (a phishing page).
Phished ==
  { r \in [id : CredIDs, challenge : Challenges, origin : Origins \ {origin},
           signedBy : Keys, counter : {MaxCounter}, malformed : {FALSE}] :
      r.signedBy = KeyOf(r.id) }

\* A response signed with a key that is not the credential's.
Forged ==
  { r \in [id : CredIDs, challenge : Challenges, origin : {origin}, signedBy : Keys,
           counter : {MaxCounter}, malformed : {FALSE}] : r.signedBy # KeyOf(r.id) }

\* A body the library cannot decode: only its `id`, which the handler reads
\* itself, means anything.
Malformed ==
  [id : CredIDs, challenge : {NoChallenge}, origin : {"none"}, signedBy : {"none"},
   counter : {0}, malformed : {TRUE}]

Responses == Genuine \cup Phished \cup Forged \cup Malformed

NoResp == [id |-> "none", challenge |-> NoChallenge, origin |-> "none",
           signedBy |-> "none", counter |-> 0, malformed |-> FALSE]

VARIABLES
  users,              \* the Map `users`, in insertion order
  globalChallenge,    \* global.currentChallenge
  calls,              \* the handlers suspended at their await (a bag), each
                      \* with its locals and the library call it waits for
  issued,             \* number of challenges generated so far
  last                \* the HTTP response the latest step sent, if it sent one

vars == <<users, globalChallenge, calls, issued, last>>


\* ------------------------------------------------------------ records
\* Math.random().toString(36).substring(2, 15): an id no earlier user has.
NewId == Len(users) + 1

NewUser(id, username) ==
  [id |-> id, username |-> username, currentChallenge |-> NoChallenge,
   authenticators |-> <<>>]

\* What the verifier's promise resolves to: {verified, registrationInfo} or
\* {verified, authenticationInfo}, or a rejection ("throw").
Rejected(result) ==
  [result |-> result, id |-> "none", publicKey |-> "none", counter |-> 0]

NoVerification == Rejected("none")

\* A handler suspended at its await: its locals and the pending library call
\* (`credentials` is the list in a begin handler's opts).
\* `matched` is history, not a local: whether the challenge the client posted
\* was the one bound to the ceremony's scope when the handler was invoked.
Idle ==
  [kind |-> "none", username |-> "", owner |-> 0, authIdx |-> 0,
   expectedChallenge |-> NoChallenge, verification |-> NoVerification,
   matched |-> FALSE, credentials |-> <<>>]

\* No user: the `user` member a response carries only after a verified login.
NoUser == [id |-> 0, username |-> ""]

NoCall ==
  [kind |-> "none", username |-> "", outcome |-> "none", user |-> NoUser,
   credentials |-> <<>>, challenge |-> NoChallenge]

\* The response a handler sends, res.json(...) or res.status(...).json(...),
\* with the username of the request it answers.  `challenge` is history, not
\* part of the response: the expectedChallenge a finish that answers verified
\* was verified against.
Reply(kind, username, outcome) ==
  [kind |-> kind, username |-> username, outcome |-> outcome, user |-> NoUser,
   credentials |-> <<>>, challenge |-> NoChallenge]

\* Variant: the response names the first user of the Map.
Identity_First(us, i) == [id |-> us[1].id, username |-> us[1].username]

\* user: { id, username } in the response to a verified login.
Identity(us, i) == [id |-> us[i].id, username |-> us[i].username]

\* Variant: the handler leaves the list empty.
CredentialIDs_None(auths) == <<>>

\* authenticators.map(authenticator => ({ id: authenticator.credentialID, ... })):
\* the excludeCredentials / allowCredentials list put into opts.
CredentialIDs(auths) == [j \in 1..Len(auths) |-> auths[j].credentialID]

\* The credential list of the options generate*Options(opts) returns: the
\* descriptors it was given.
OptionsCredentials(optsCredentials) == optsCredentials

\* ------------------------------------------------------------ store lookups
\* users.get(username): the position of the user in the Map, 0 when absent.
UserIdx(username) ==
  IF \E i \in 1..Len(users) : users[i].username = username
  THEN CHOOSE i \in 1..Len(users) : users[i].username = username
  ELSE 0

\* authenticators.find(auth => auth.credentialID === id): first match, 0 when none.
FindAuth(auths, id) ==
  IF \E j \in 1..Len(auths) : auths[j].credentialID = id
  THEN CHOOSE j \in 1..Len(auths) :
         /\ auths[j].credentialID = id
         /\ \A k \in 1..(j - 1) : auths[k].credentialID # id
  ELSE 0

\* The loop over Array.from(users.entries()): the first user, in insertion
\* order, that holds a credential with this ID; 0 when none does.
FindOwner(id) ==
  IF \E i \in 1..Len(users) : FindAuth(users[i].authenticators, id) # 0
  THEN CHOOSE i \in 1..Len(users) :
         /\ FindAuth(users[i].authenticators, id) # 0
         /\ \A k \in 1..(i - 1) : FindAuth(users[k].authenticators, id) = 0
  ELSE 0

\* ------------------------------------------------------------ the verifier
\* Variant: the server configured with another site's origin.
ExpectedOrigin_Other == "https://evil.example"

\* expectedOrigin: origin, in the opts of every finish handler.
ExpectedOrigin == origin

\* The client-data checks both ceremonies share: challenge, then origin.
ClientDataOk(resp, expectedChallenge) ==
  /\ resp.challenge = expectedChallenge
  /\ resp.origin = ExpectedOrigin

\* verifyRegistrationResponse(opts): rejects a body it cannot decode; on
\* success registrationInfo carries the credential's ID, key and counter.
VerifyRegistrationResponse(resp, expectedChallenge) ==
  IF resp.malformed THEN Rejected("throw")
  ELSE IF ClientDataOk(resp, expectedChallenge)
       THEN [result |-> "verified", id |-> resp.id, publicKey |-> resp.signedBy,
             counter |-> resp.counter]
       ELSE Rejected("failed")

\* The signature counter check: a reported counter below a nonzero stored one
\* is a cloned authenticator; an equal one is tolerated.
CounterOk(reported, stored) == ~(stored # 0 /\ reported < stored)

\* verifyAuthenticationResponse(opts), against the credential copied into
\* opts; on success authenticationInfo.newCounter is the reported counter.
VerifyAuthenticationResponse(resp, expectedChallenge, credKey, credCounter) ==
  IF resp.malformed THEN Rejected("throw")
  ELSE IF /\ ClientDataOk(resp, expectedChallenge)
          /\ resp.signedBy = credKey
          /\ CounterOk(resp.counter, credCounter)
       THEN [result |-> "verified", id |-> "none", publicKey |-> "none",
             counter |-> resp.counter]
       ELSE Rejected("failed")

\* The handler's branch on the awaited result; a rejection lands in its catch.
Outcome(verification) ==
  CASE verification.result = "verified" -> "verified"
    [] verification.result = "failed"   -> "VerificationFailed"
    [] OTHER                            -> "InternalError"

\* The answer of a finish handler resumed from its await.
FinishReply(kind, username, c) ==
  [Reply(kind, username, Outcome(c.verification))
     EXCEPT !.challenge = IF c.verification.result = "verified"
                          THEN c.expectedChallenge ELSE NoChallenge]

\* ------------------------------------------------------------ scheduling
InFlight == BagToSet(calls)

\* The server takes a new request while fewer than `slots` are suspended.
Accept(slots) == BagCardinality(calls) < slots

Suspend(call) == calls (+) SetToBag({call})
Resume(call)  == calls (-) SetToBag({call})

\* The suspended handlers of the given kinds.
Suspended(kinds) ==
  BagCardinality([c \in {x \in InFlight : x.kind \in kinds} |-> calls[c]])

\* generate*Options can still draw a challenge for this call.
CanIssue ==
  issued + Suspended({"RegisterBegin", "AuthBegin", "DiscBegin"}) < MaxChallenges

\* Credentials stored, and registrations that may still store one.
Registrations ==
  Suspended({"RegisterFinish"})
  + Cardinality({<<i, j>> \in (1..Len(users)) \X (1..(MaxAuthenticators + 1)) :
                   j <= Len(users[i].authenticators)})

\* A step that suspends a registration keeps the run within `creds` credentials.
Within(creds) == calls' # calls => Registrations < creds

\* What a client can post: a challenge it presents is one the server issued.
Presentable == {r \in Responses : r.challenge <= issued}

\* Attestations carry the public key of the credential they create.
Attestations == Presentable \ Forged

\* Assertions are signed with the credential's key or with another.
Assertions == Presentable

\* The bodies posted to a finish route: {username, credential}, either of
\* which may be missing (NoResp is the missing credential).
FinishRequests(names, credentials) ==
  (names \X credentials)
    \cup ((names \cup {""}) \X {NoResp})
    \cup ({""} \X (credentials \cap Malformed))

Init ==
  /\ users = <<>>
  /\ globalChallenge = NoChallenge
  /\ calls = EmptyBag
  /\ issued = 0
  /\ last = NoCall

\* ------------------------------------------------------------ store updates
\* Variant: a begin that binds its challenge to every user.
BindChallenge_AllUsers(us, i, challenge) ==
  [k \in 1..Len(us) |-> [us[k] EXCEPT !.currentChallenge = challenge]]

\* Variant: a begin that keeps a challenge already bound.
BindChallenge_FirstWins(us, i, challenge) ==
  IF us[i].currentChallenge = NoChallenge
  THEN [us EXCEPT ![i].currentChallenge = challenge]
  ELSE us

\* user.currentChallenge = options.challenge; users.set(username, user)
BindChallenge(us, i, challenge) ==
  [us EXCEPT ![i].currentChallenge = challenge]

\* The AuthenticatorDevice built from verification.registrationInfo.
NewAuthenticator(info) ==
  [credentialID |-> info.id, credentialPublicKey |-> info.publicKey,
   counter |-> info.counter]

\* Variant: the new credential replaces the collection.
PushAuthenticator_Replace(us, i, info) ==
  [us EXCEPT ![i].authenticators = <<NewAuthenticator(info)>>,
             ![i].currentChallenge = NoChallenge]

\* Variant: the new credential is put first in the collection.
PushAuthenticator_Prepend(us, i, info) ==
  [us EXCEPT ![i].authenticators = <<NewAuthenticator(info)>> \o @,
             ![i].currentChallenge = NoChallenge]

\* user.authenticators.push(newAuthenticator); user.currentChallenge = undefined
PushAuthenticator(us, i, info) ==
  [us EXCEPT ![i].authenticators = Append(@, NewAuthenticator(info)),
             ![i].currentChallenge = NoChallenge]

\* Variant: a successful login that keeps the stored counter.
AcceptAssertion_KeepCounter(us, i, j, newCounter) ==
  [us EXCEPT ![i].currentChallenge = NoChallenge]

\* Variant: a successful login that keeps the challenge bound.
AcceptAssertion_KeepChallenge(us, i, j, newCounter) ==
  [us EXCEPT ![i].authenticators[j].counter = newCounter]

\* authenticator.counter = newCounter; user.currentChallenge = undefined
AcceptAssertion(us, i, j, newCounter) ==
  [us EXCEPT ![i].authenticators[j].counter = newCounter,
             ![i].currentChallenge = NoChallenge]

\* foundAuthenticator.counter = newCounter; users.set(foundUser.username, foundUser)
AcceptDiscoverable(us, i, j, newCounter) ==
  [us EXCEPT ![i].authenticators[j].counter = newCounter]

\* Variant: verification against the latest challenge issued to anyone.
ExpectedChallenge_Latest(i) == issued

\* expectedChallenge: user.currentChallenge, as the finish handlers read it.
ExpectedChallenge(i) == users[i].currentChallenge

\* Variant: the discoverable finish verifies against the challenge of the
\* first user of the Map when that user has one.
ExpectedGlobalChallenge_OfUser ==
  IF users # <<>> /\ users[1].currentChallenge # NoChallenge
  THEN users[1].currentChallenge
  ELSE globalChallenge

\* expectedChallenge: global.currentChallenge
ExpectedGlobalChallenge == globalChallenge

\* ------------------------------------------------------------ register/begin
\* Variant: the handler creates a user record without looking the name up.
RegisterBeginStart_AlwaysCreate(username) ==
  /\ IF username = ""
     THEN /\ last' = Reply("RegisterBegin", username, "InvalidInput")
          /\ UNCHANGED <<users, globalChallenge, calls, issued>>
     ELSE /\ CanIssue
          /\ users' = Append(users, NewUser(NewId, username))
          /\ calls' = Suspend(
               [Idle EXCEPT !.kind = "RegisterBegin", !.username = username])
          /\ last' = NoCall
          /\ UNCHANGED <<globalChallenge, issued>>

\* Variant: the handler does not test the username.
RegisterBeginStart_AnyName(username) ==
  /\ CanIssue
  /\ users' = IF UserIdx(username) = 0
              THEN Append(users, NewUser(NewId, username))
              ELSE users
  /\ calls' = Suspend(
       [Idle EXCEPT !.kind = "RegisterBegin", !.username = username])
  /\ last' = NoCall
  /\ UNCHANGED <<globalChallenge, issued>>

RegisterBeginStart(username) ==
  /\ IF username = ""
     THEN /\ last' = Reply("RegisterBegin", username, "InvalidInput")
          /\ UNCHANGED <<users, globalChallenge, calls, issued>>
     ELSE /\ CanIssue
          /\ users' = IF UserIdx(username) = 0
                      THEN Append(users, NewUser(NewId, username))
                      ELSE users
          /\ calls' = Suspend(
               [Idle EXCEPT !.kind = "RegisterBegin", !.username = username,
                            !.credentials =
                               IF UserIdx(username) = 0
                               THEN <<>>
                               ELSE CredentialIDs(
                                      users[UserIdx(username)].authenticators)])
          /\ last' = NoCall
          /\ UNCHANGED <<globalChallenge, issued>>

RegisterBeginDone(c) ==
  /\ c.kind = "RegisterBegin"
  /\ issued' = issued + 1
  /\ users' = BindChallenge(users, UserIdx(c.username), issued + 1)
  /\ calls' = Resume(c)
  /\ last' = [Reply("RegisterBegin", c.username, "options")
               EXCEPT !.credentials = OptionsCredentials(c.credentials)]
  /\ UNCHANGED globalChallenge

\* ------------------------------------------------------------ register/finish
\* Variant: the handler does not look at the bound challenge.
RegisterFinishCheck_AnyState(username, resp) ==
  IF username = "" \/ resp = NoResp
  THEN "InvalidInput"
  ELSE IF UserIdx(username) = 0
  THEN "InvalidCeremonyState"
  ELSE "await"

\* The checks before the await: the early return, or "await" when the handler
\* goes on to the library call.
RegisterFinishCheck(username, resp) ==
  IF username = "" \/ resp = NoResp
  THEN "InvalidInput"
  ELSE IF UserIdx(username) = 0
          \/ users[UserIdx(username)].currentChallenge = NoChallenge
  THEN "InvalidCeremonyState"
  ELSE "await"

\* opts, and the pending verifyRegistrationResponse(opts).
RegisterFinishCall(username, resp) ==
  [Idle EXCEPT !.kind = "RegisterFinish", !.username = username,
               !.owner = UserIdx(username),
               !.expectedChallenge = ExpectedChallenge(UserIdx(username)),
               !.verification =
                  VerifyRegistrationResponse(
                    resp, ExpectedChallenge(UserIdx(username))),
               !.matched =
                  (resp.challenge = users[UserIdx(username)].currentChallenge)]

RegisterFinishStart(username, resp) ==
  /\ UNCHANGED <<users, globalChallenge, issued>>
  /\ IF RegisterFinishCheck(username, resp) = "await"
     THEN /\ calls' = Suspend(RegisterFinishCall(username, resp))
          /\ last' = NoCall
     ELSE /\ last' = Reply("RegisterFinish", username,
                           RegisterFinishCheck(username, resp))
          /\ UNCHANGED calls

\* Variant: the handler without its catch: a rejected verification is never
\* answered.
RegisterFinishDone_NoCatch(c) ==
  /\ c.kind = "RegisterFinish"
  /\ c.verification.result # "throw"
  /\ users' = IF c.verification.result = "verified"
              THEN PushAuthenticator(users, c.owner, c.verification)
              ELSE users
  /\ last' = FinishReply("RegisterFinish", c.username, c)
  /\ calls' = Resume(c)
  /\ UNCHANGED <<globalChallenge, issued>>

RegisterFinishDone(c) ==
  /\ c.kind = "RegisterFinish"
  /\ users' = IF c.verification.result = "verified"
              THEN PushAuthenticator(users, c.owner, c.verification)
              ELSE users
  /\ last' = FinishReply("RegisterFinish", c.username, c)
  /\ calls' = Resume(c)
  /\ UNCHANGED <<globalChallenge, issued>>

\* ------------------------------------------------------------ authenticate/begin
\* Variant: the handler gets or creates the user, as register/begin does.
AuthBeginStart_GetOrCreate(username) ==
  /\ IF username = ""
     THEN /\ last' = Reply("AuthBegin", username, "InvalidInput")
          /\ UNCHANGED <<users, globalChallenge, calls, issued>>
     ELSE /\ CanIssue
          /\ users' = IF UserIdx(username) = 0
                      THEN Append(users, NewUser(NewId, username))
                      ELSE users
          /\ calls' = Suspend(
               [Idle EXCEPT !.kind = "AuthBegin", !.username = username])
          /\ last' = NoCall
          /\ UNCHANGED <<globalChallenge, issued>>

AuthBeginStart(username) ==
  /\ UNCHANGED <<users, globalChallenge, issued>>
  /\ IF username = ""
     THEN /\ last' = Reply("AuthBegin", username, "InvalidInput")
          /\ UNCHANGED calls
     ELSE IF UserIdx(username) = 0
     THEN /\ last' = Reply("AuthBegin", username, "UserNotFound")
          /\ UNCHANGED calls
     ELSE /\ CanIssue
          /\ calls' = Suspend(
               [Idle EXCEPT !.kind = "AuthBegin", !.username = username,
                            !.credentials =
                               CredentialIDs(
                                 users[UserIdx(username)].authenticators)])
          /\ last' = NoCall

AuthBeginDone(c) ==
  /\ c.kind = "AuthBegin"
  /\ issued' = issued + 1
  /\ users' = BindChallenge(users, UserIdx(c.username), issued + 1)
  /\ calls' = Resume(c)
  /\ last' = [Reply("AuthBegin", c.username, "options")
               EXCEPT !.credentials = OptionsCredentials(c.credentials)]
  /\ UNCHANGED globalChallenge

\* ------------------------------------------------------------ authenticate/finish
\* The checks before the await: the early return, or "await".
AuthFinishCheck(username, resp) ==
  IF username = "" \/ resp = NoResp
  THEN "InvalidInput"
  ELSE IF UserIdx(username) = 0
          \/ users[UserIdx(username)].currentChallenge = NoChallenge
  THEN "InvalidCeremonyState"
  ELSE IF FindAuth(users[UserIdx(username)].authenticators, resp.id) = 0
  THEN "AuthenticatorNotFound"
  ELSE "await"

\* opts, and the pending verifyAuthenticationResponse(opts).
AuthFinishCall(username, resp) ==
  LET i == UserIdx(username)
      j == FindAuth(users[i].authenticators, resp.id)
  IN [kind |-> "AuthFinish", username |-> username, owner |-> i, authIdx |-> j,
      expectedChallenge |-> ExpectedChallenge(i),
      verification |->
        VerifyAuthenticationResponse(
          resp, ExpectedChallenge(i),
          users[i].authenticators[j].credentialPublicKey,
          users[i].authenticators[j].counter),
      matched |-> (resp.challenge = users[i].currentChallenge),
      credentials |-> <<>>]

AuthFinishStart(username, resp) ==
  /\ UNCHANGED <<users, globalChallenge, issued>>
  /\ IF AuthFinishCheck(username, resp) = "await"
     THEN /\ calls' = Suspend(AuthFinishCall(username, resp))
          /\ last' = NoCall
     ELSE /\ last' = Reply("AuthFinish", username,
                           AuthFinishCheck(username, resp))
          /\ UNCHANGED calls

\* Variant: the counter is written before the branch on the result.
AuthFinishDone_UpdateFirst(c) ==
  /\ c.kind = "AuthFinish"
  /\ users' = IF c.verification.result = "verified"
              THEN AcceptAssertion(users, c.owner, c.authIdx, c.verification.counter)
              ELSE AcceptDiscoverable(users, c.owner, c.authIdx,
                                      c.verification.counter)
  /\ last' = [FinishReply("AuthFinish", c.username, c)
               EXCEPT !.user = IF c.verification.result = "verified"
                               THEN Identity(users, c.owner) ELSE NoUser]
  /\ calls' = Resume(c)
  /\ UNCHANGED <<globalChallenge, issued>>

AuthFinishDone(c) ==
  /\ c.kind = "AuthFinish"
  /\ users' = IF c.verification.result = "verified"
              THEN AcceptAssertion(users, c.owner, c.authIdx, c.verification.counter)
              ELSE users
  /\ last' = [FinishReply("AuthFinish", c.username, c)
               EXCEPT !.user = IF c.verification.result = "verified"
                               THEN Identity(users, c.owner) ELSE NoUser]
  /\ calls' = Resume(c)
  /\ UNCHANGED <<globalChallenge, issued>>

\* ------------------------------------------------------------ begin-usernameless
DiscBeginStart ==
  /\ CanIssue
  /\ calls' = Suspend([Idle EXCEPT !.kind = "DiscBegin"])
  /\ last' = NoCall
  /\ UNCHANGED <<users, globalChallenge, issued>>

DiscBeginDone(c) ==
  /\ c.kind = "DiscBegin"
  /\ issued' = issued + 1
  /\ globalChallenge' = issued + 1
  /\ calls' = Resume(c)
  /\ last' = [Reply("DiscBegin", "", "options")
               EXCEPT !.credentials = OptionsCredentials(c.credentials)]
  /\ UNCHANGED users

\* ------------------------------------------------------------ finish-usernameless
\* Variant: the owner loop stops after the first user of the Map.
DiscFinishCheck_FirstUserOnly(resp) ==
  IF resp = NoResp
  THEN "InvalidInput"
  ELSE IF globalChallenge = NoChallenge
  THEN "InvalidCeremonyState"
  ELSE IF users = <<>> \/ FindAuth(users[1].authenticators, resp.id) = 0
  THEN "AuthenticatorNotFound"
  ELSE "await"

\* The checks before the await: the early return, or "await".
DiscFinishCheck(resp) ==
  IF resp = NoResp
  THEN "InvalidInput"
  ELSE IF globalChallenge = NoChallenge
  THEN "InvalidCeremonyState"
  ELSE IF FindOwner(resp.id) = 0
  THEN "AuthenticatorNotFound"
  ELSE "await"

\* opts, and the pending verifyAuthenticationResponse(opts).
DiscFinishCall(resp) ==
  LET i == FindOwner(resp.id)
      j == FindAuth(users[i].authenticators, resp.id)
  IN [kind |-> "DiscFinish", username |-> users[i].username,
      owner |-> i, authIdx |-> j,
      expectedChallenge |-> ExpectedGlobalChallenge,
      verification |->
        VerifyAuthenticationResponse(
          resp, ExpectedGlobalChallenge,
          users[i].authenticators[j].credentialPublicKey,
          users[i].authenticators[j].counter),
      matched |-> (resp.challenge = globalChallenge),
      credentials |-> <<>>]

DiscFinishStart(resp) ==
  /\ UNCHANGED <<users, globalChallenge, issued>>
  /\ IF DiscFinishCheck(resp) = "await"
     THEN /\ calls' = Suspend(DiscFinishCall(resp))
          /\ last' = NoCall
     ELSE /\ last' = Reply("DiscFinish", "", DiscFinishCheck(resp))
          /\ UNCHANGED calls

DiscFinishDone(c) ==
  /\ c.kind = "DiscFinish"
  /\ users' = IF c.verification.result = "verified"
              THEN AcceptDiscoverable(users, c.owner, c.authIdx, c.verification.counter)
              ELSE users
  /\ globalChallenge' = IF c.verification.result = "verified"
                        THEN NoChallenge ELSE globalChallenge
  /\ last' = [FinishReply("DiscFinish", "", c)
               EXCEPT !.user = IF c.verification.result = "verified"
                               THEN Identity(users, c.owner) ELSE NoUser]
  /\ calls' = Resume(c)
  /\ UNCHANGED issued

\* ------------------------------------------------------------ specification
\* The server under a client load of at most `slots` overlapping requests and
\* `creds` registrations, for the usernames `names` ("" is the missing one).
Step(slots, creds, names) ==
  \/ \E u \in names \cup {""} : Accept(slots) /\ RegisterBeginStart(u)
  \/ \E c \in InFlight : RegisterBeginDone(c)
  \/ \E q \in FinishRequests(names, Attestations) :
       Accept(slots) /\ RegisterFinishStart(q[1], q[2]) /\ Within(creds)
  \/ \E c \in InFlight : RegisterFinishDone(c)
  \/ \E u \in names \cup {""} : Accept(slots) /\ AuthBeginStart(u)
  \/ \E c \in InFlight : AuthBeginDone(c)
  \/ \E q \in FinishRequests(names, Assertions) :
       Accept(slots) /\ AuthFinishStart(q[1], q[2])
  \/ \E c \in InFlight : AuthFinishDone(c)
  \/ Accept(slots) /\ DiscBeginStart
  \/ \E c \in InFlight : DiscBeginDone(c)
  \/ \E r \in Assertions \cup {NoResp} : Accept(slots) /\ DiscFinishStart(r)
  \/ \E c \in InFlight : DiscFinishDone(c)

\* Overlapping handlers, one user, a small store.
Next == Step(MaxInFlight, MaxOverlapAuthenticators, {"alice"})

Spec == Init /\ [][Next]_vars

\* One handler at a time, every user, a larger store.
NextSerial == Step(1, MaxAuthenticators, Usernames)

SpecSerial == Init /\ [][NextSerial]_vars

\* The library call a suspended handler waits for settles, and the handler
\* runs to its response.
Completion(c) ==
  \/ RegisterBeginDone(c)
  \/ RegisterFinishDone(c)
  \/ AuthBeginDone(c)
  \/ AuthFinishDone(c)
  \/ DiscBeginDone(c)
  \/ DiscFinishDone(c)

Routes == {"RegisterBegin", "RegisterFinish", "AuthBegin", "AuthFinish",
           "DiscBegin", "DiscFinish"}

\* A load in which a client posts to a route only when no earlier request to
\* that route is still suspended, so that a suspended call is known by its route.
OnePerRoute ==
  \A c \in BagToSet(calls') :
     calls' = Suspend(c) => Suspended({c.kind}) = 0

\* Overlapping handlers of different routes, one user, a small store.
NextLive ==
  \/ \E u \in {"alice", ""} :
       Accept(MaxInFlight) /\ RegisterBeginStart(u) /\ OnePerRoute
  \/ \E c \in InFlight : RegisterBeginDone(c)
  \/ \E q \in FinishRequests({"alice"}, Attestations) :
       /\ Accept(MaxInFlight) /\ RegisterFinishStart(q[1], q[2])
       /\ Within(MaxOverlapAuthenticators) /\ OnePerRoute
  \/ \E c \in InFlight : RegisterFinishDone(c)
  \/ \E u \in {"alice", ""} :
       Accept(MaxInFlight) /\ AuthBeginStart(u) /\ OnePerRoute
  \/ \E c \in InFlight : AuthBeginDone(c)
  \/ \E q \in FinishRequests({"alice"}, Assertions) :
       Accept(MaxInFlight) /\ AuthFinishStart(q[1], q[2]) /\ OnePerRoute
  \/ \E c \in InFlight : AuthFinishDone(c)
  \/ Accept(MaxInFlight) /\ DiscBeginStart /\ OnePerRoute
  \/ \E c \in InFlight : DiscBeginDone(c)
  \/ \E r \in Assertions \cup {NoResp} :
       Accept(MaxInFlight) /\ DiscFinishStart(r) /\ OnePerRoute
  \/ \E c \in InFlight : DiscFinishDone(c)

\* Every promise of the library settles and the event loop then resumes the
\* handler awaiting it.
Fairness ==
  \A k \in Routes :
     WF_vars(\E c \in InFlight : c.kind = k /\ Completion(c))

SpecLive == Init /\ [][NextLive]_vars /\ Fairness

\* ------------------------------------------------------------ properties
FinishKinds == {"RegisterFinish", "AuthFinish", "DiscFinish"}

\* Every user's credential collection, counters included.
Credentials(us) == [i \in 1..Len(us) |-> us[i].authenticators]

\* C1: a finish returns verified only if its response carried the challenge
\* that was bound to its scope (the user, or the global slot) when the finish
\* was invoked; a response carrying any other challenge never verifies and
\* never changes credentials or counters.
C1_BoundChallengeOnly ==
  [][\A c \in InFlight :
       (calls' = Resume(c) /\ c.kind \in FinishKinds) =>
          /\ (last'.outcome = "verified" => c.matched)
          /\ (~c.matched => Credentials(users') = Credentials(users))]_vars

\* A discoverable login verified while a user's own challenge is bound too.
C1_VerifiedFinish ==
  /\ last.kind = "DiscFinish"
  /\ last.outcome = "verified"
  /\ \E i \in 1..Len(users) : users[i].currentChallenge # NoChallenge

\* C2: a RegisterBegin binds to its user the challenge it has just issued, which
\* no earlier call issued, so after two RegisterBegin calls the second one's
\* challenge is the one bound; a RegisterFinish whose response carries a
\* challenge issued before the bound one fails with VerificationFailed and
\* stores no credential.
C2_SecondBeginWins ==
  /\ [](\A u \in Usernames : \A r \in Genuine :
          (/\ UserIdx(u) # 0
           /\ r.challenge < users[UserIdx(u)].currentChallenge) =>
             /\ RegisterFinishCheck(u, r) = "await"
             /\ RegisterFinishCall(u, r).verification.result = "failed")
  /\ [][/\ (last'.kind = "RegisterBegin" /\ last'.outcome = "options") =>
             /\ issued' > issued
             /\ users'[UserIdx(last'.username)].currentChallenge = issued'
        /\ \A c \in InFlight :
             (/\ calls' = Resume(c)
              /\ c.kind = "RegisterFinish"
              /\ c.verification.result = "failed") =>
                /\ last' = Reply("RegisterFinish", c.username, "VerificationFailed")
                /\ Credentials(users') = Credentials(users)]_vars

\* A registration failed for a user whose challenge was issued after another
\* one, and who still has no credential.
C2_StaleRegistrationFailed ==
  /\ last.kind = "RegisterFinish"
  /\ last.outcome = "VerificationFailed"
  /\ UserIdx(last.username) # 0
  /\ users[UserIdx(last.username)].currentChallenge > 1
  /\ users[UserIdx(last.username)].authenticators = <<>>

\* C3: a verified AuthenticateFinish leaves no challenge bound to its user, and
\* an AuthenticateFinish for a user with no challenge bound, whatever response
\* it posts, returns InvalidCeremonyState before the library is called; a call
\* that returns before the library is called changes nothing, the counter
\* included.
C3_ReplayRejected ==
  /\ [](\A u \in Usernames : \A r \in Responses :
          (/\ UserIdx(u) # 0
           /\ users[UserIdx(u)].currentChallenge = NoChallenge) =>
             AuthFinishCheck(u, r) = "InvalidCeremonyState")
  /\ [][/\ \A c \in InFlight :
             (/\ calls' = Resume(c)
              /\ c.kind = "AuthFinish"
              /\ last'.outcome = "verified") =>
                users'[c.owner].currentChallenge = NoChallenge
        /\ (last'.kind = "AuthFinish" /\ calls' = calls) =>
             UNCHANGED <<users, globalChallenge, issued>>]_vars

\* A login was answered InvalidCeremonyState for a user who holds a credential
\* and has no challenge bound.
C3_ReplayAnswered ==
  /\ last.kind = "AuthFinish"
  /\ last.outcome = "InvalidCeremonyState"
  /\ UserIdx(last.username) # 0
  /\ users[UserIdx(last.username)].currentChallenge = NoChallenge
  /\ users[UserIdx(last.username)].authenticators # <<>>
  /\ issued > 1

\* The counter stored for the credential a login handler looked up.
Stored(us, c) == us[c.owner].authenticators[c.authIdx].counter

\* C4: a discoverable begin does not take another discoverable login's
\* challenge away: every genuine assertion over the challenge of a login already
\* begun that would verify before the begin would still verify after it.
C4_DiscoverableLoginsIndependent ==
  [][(last'.kind = "DiscBegin" /\ last'.outcome = "options") =>
        \A r \in Genuine :
           (/\ r.challenge = globalChallenge
            /\ DiscFinishCheck(r) = "await"
            /\ DiscFinishCall(r).verification.result = "verified") =>
              /\ DiscFinishCheck(r)' = "await"
              /\ DiscFinishCall(r)'.verification.result = "verified"]_vars

\* C5: no step lowers the counter stored for a credential.
C5_CounterNeverRegresses ==
  [][\A i \in 1..Len(users) : \A j \in 1..Len(users[i].authenticators) :
       users'[i].authenticators[j].counter >= users[i].authenticators[j].counter]_vars

\* C6: an AuthenticateFinish whose response passes the other checks (the bound
\* challenge, the origin, the credential's key) is verified exactly when the
\* reported counter is not below a nonzero stored counter; a failed one is
\* answered VerificationFailed and leaves the stored counter unchanged, a
\* verified one sets the stored counter to the reported value.
C6_CounterPolicy ==
  /\ [](\A u \in Usernames : \A r \in Genuine :
          (/\ UserIdx(u) # 0
           /\ r.challenge = users[UserIdx(u)].currentChallenge
           /\ AuthFinishCheck(u, r) = "await") =>
             LET c == AuthFinishCall(u, r)
             IN /\ (Stored(users, c) # 0 /\ r.counter < Stored(users, c)) =>
                      c.verification.result = "failed"
                /\ r.counter >= Stored(users, c) =>
                      /\ c.verification.result = "verified"
                      /\ c.verification.counter = r.counter)
  /\ [][\A c \in InFlight :
          (calls' = Resume(c) /\ c.kind = "AuthFinish") =>
             /\ c.verification.result = "failed" =>
                   /\ last'.outcome = "VerificationFailed"
                   /\ Stored(users', c) = Stored(users, c)
             /\ c.verification.result = "verified" =>
                   /\ last'.outcome = "verified"
                   /\ Stored(users', c) = c.verification.counter]_vars

\* A login failed for a user whose credential's counter was raised to the
\* maximum, and a genuine response over the bound challenge with a lower
\* counter is one the verifier fails.
C6_RegressionRejected ==
  /\ last.kind = "AuthFinish"
  /\ last.outcome = "VerificationFailed"
  /\ UserIdx(last.username) # 0
  /\ \E r \in Genuine :
       /\ r.challenge = users[UserIdx(last.username)].currentChallenge
       /\ AuthFinishCheck(last.username, r) = "await"
       /\ Stored(users, AuthFinishCall(last.username, r)) = MaxCounter
       /\ r.counter < MaxCounter
       /\ AuthFinishCall(last.username, r).verification.result = "failed"

\* C7: no two stored credentials, of one user or of two, share a credentialID.
C7_UniqueCredentialIDs ==
  \A i1, i2 \in 1..Len(users) :
    \A j1 \in 1..Len(users[i1].authenticators) :
      \A j2 \in 1..Len(users[i2].authenticators) :
        (users[i1].authenticators[j1].credentialID
           = users[i2].authenticators[j2].credentialID)
          => (i1 = i2 /\ j1 = j2)

\* C8: when a RegisterFinish or AuthenticateFinish fails verification, no
\* challenge remains bound to its user.
C8_FailedFinishClears ==
  [][\A c \in InFlight :
       (/\ calls' = Resume(c)
        /\ c.kind \in {"RegisterFinish", "AuthFinish"}
        /\ last'.outcome = "VerificationFailed") =>
          users'[c.owner].currentChallenge = NoChallenge]_vars

\* C9: a finish that answers anything but verified leaves every user's
\* credentials and every counter as they were.
C9_FailureChangesNothing ==
  [][(last'.kind \in FinishKinds /\ last'.outcome # "verified") =>
        Credentials(users') = Credentials(users)]_vars

\* A finish ended in the handler's catch while a credential is stored.
C9_VerifierThrew ==
  /\ last.kind \in FinishKinds
  /\ last.outcome = "InternalError"
  /\ \E i \in 1..Len(users) : users[i].authenticators # <<>>

\* C10: a challenge bound to a user changes only when a begin for that user
\* binds a new one or when a finish that verified against that very challenge
\* clears it.
C10_ChallengeStaysBound ==
  [][\A i \in 1..Len(users) :
       (/\ users[i].currentChallenge # NoChallenge
        /\ users'[i].currentChallenge # users[i].currentChallenge) =>
          \/ /\ last'.kind \in {"RegisterBegin", "AuthBegin"}
             /\ last'.outcome = "options"
             /\ last'.username = users[i].username
          \/ \E c \in InFlight :
               /\ calls' = Resume(c)
               /\ c.kind \in {"RegisterFinish", "AuthFinish"}
               /\ c.owner = i
               /\ last'.outcome = "verified"
               /\ c.expectedChallenge = users[i].currentChallenge]_vars

\* C11: at most one user record exists for a username, whatever the
\* interleaving of RegisterBegin calls, and a record, once created, keeps its
\* place, its id and its username in every later state.
C11_OneUserPerUsername ==
  /\ [](\A i, j \in 1..Len(users) :
          users[i].username = users[j].username => i = j)
  /\ [][/\ Len(users') >= Len(users)
        /\ \A i \in 1..Len(users) :
             /\ users'[i].id = users[i].id
             /\ users'[i].username = users[i].username]_vars

\* Two RegisterBegin calls for one username are suspended at once, and the
\* username has one record.
C11_TwoBeginsOneUser ==
  \E c \in InFlight :
    /\ c.kind = "RegisterBegin"
    /\ calls[c] = 2
    /\ Cardinality({i \in 1..Len(users) : users[i].username = c.username}) = 1

\* C12: a finish whose response is genuine in everything but its origin (the
\* bound challenge, the credential's key, a counter not below the stored one)
\* fails verification, on all three finish routes; a finish that fails
\* verification is answered VerificationFailed and changes neither the
\* credentials nor a counter.
C12_OriginBound ==
  /\ [](\A r \in Phished :
          /\ \A u \in Usernames :
               /\ (/\ RegisterFinishCheck(u, r) = "await"
                   /\ r.challenge = users[UserIdx(u)].currentChallenge) =>
                      RegisterFinishCall(u, r).verification.result = "failed"
               /\ (/\ AuthFinishCheck(u, r) = "await"
                   /\ r.challenge = users[UserIdx(u)].currentChallenge) =>
                      AuthFinishCall(u, r).verification.result = "failed"
          /\ (DiscFinishCheck(r) = "await" /\ r.challenge = globalChallenge) =>
                DiscFinishCall(r).verification.result = "failed")
  /\ [][\A c \in InFlight :
          (/\ calls' = Resume(c)
           /\ c.kind \in FinishKinds
           /\ c.verification.result = "failed") =>
             /\ last'.outcome = "VerificationFailed"
             /\ Credentials(users') = Credentials(users)]_vars

\* A login over the bound challenge failed, leaving the challenge bound, and a
\* response from the other origin over that challenge, by a stored credential,
\* is one the verifier fails.
C12_PhishedLoginFailed ==
  /\ last.kind = "AuthFinish"
  /\ last.outcome = "VerificationFailed"
  /\ \E r \in Phished :
       /\ AuthFinishCheck(last.username, r) = "await"
       /\ r.challenge = users[UserIdx(last.username)].currentChallenge
       /\ AuthFinishCall(last.username, r).matched
       /\ AuthFinishCall(last.username, r).verification.result = "failed"

\* The user holds a credential with this ID.
Owns(user, id) ==
  \E j \in 1..Len(user.authenticators) : user.authenticators[j].credentialID = id

\* C13: a login handler goes to verification with the asserted credential as
\* its authenticator and a user holding it as its user (on the bound route the
\* user named in the request); when it returns verified, the response carries
\* that user's id and username, the credential's stored counter is the
\* reported one, and no challenge is bound to the scope of the ceremony.
C13_VerifiedLogin ==
  /\ [](\A r \in Responses :
          /\ \A u \in Usernames :
               AuthFinishCheck(u, r) = "await" =>
                  LET c == AuthFinishCall(u, r)
                  IN /\ users[c.owner].username = u
                     /\ users[c.owner].authenticators[c.authIdx].credentialID = r.id
                     /\ c.verification.result = "verified" =>
                           c.verification.counter = r.counter
          /\ DiscFinishCheck(r) = "await" =>
               LET c == DiscFinishCall(r)
               IN /\ Owns(users[c.owner], r.id)
                  /\ users[c.owner].authenticators[c.authIdx].credentialID = r.id
                  /\ c.verification.result = "verified" =>
                        c.verification.counter = r.counter)
  /\ [][\A c \in InFlight :
          (/\ calls' = Resume(c)
           /\ c.kind \in {"AuthFinish", "DiscFinish"}
           /\ last'.outcome = "verified") =>
             /\ last'.user = [id |-> users[c.owner].id,
                              username |-> users[c.owner].username]
             /\ Stored(users', c) = c.verification.counter
             /\ c.kind = "AuthFinish" =>
                   users'[c.owner].currentChallenge = NoChallenge
             /\ c.kind = "DiscFinish" => globalChallenge' = NoChallenge]_vars

\* A discoverable login verified for the second user of the Map, with the
\* reported counter stored.
C13_SecondUserLoggedIn ==
  /\ last.kind = "DiscFinish"
  /\ last.outcome = "verified"
  /\ Len(users) = 2
  /\ last.user = [id |-> users[2].id, username |-> users[2].username]
  /\ \E j \in 1..Len(users[2].authenticators) :
       users[2].authenticators[j].counter > 0

\* C14: for a username with no record or with no challenge bound, RegisterFinish
\* and AuthenticateFinish return InvalidCeremonyState before the library is
\* called, whatever response is posted; a RegisterFinish or AuthenticateFinish
\* that returns before the library is called changes no state.
C14_NoChallengeNoCeremony ==
  /\ [](\A u \in Usernames : \A r \in Responses :
          (\/ UserIdx(u) = 0
           \/ users[UserIdx(u)].currentChallenge = NoChallenge) =>
             /\ RegisterFinishCheck(u, r) = "InvalidCeremonyState"
             /\ AuthFinishCheck(u, r) = "InvalidCeremonyState")
  /\ [][(/\ last'.kind \in {"RegisterFinish", "AuthFinish"}
         /\ last'.outcome \in {"InvalidInput", "InvalidCeremonyState",
                               "AuthenticatorNotFound"}) =>
           UNCHANGED <<users, globalChallenge, calls, issued>>]_vars

\* A RegisterFinish was answered InvalidCeremonyState for a user whose
\* challenge an earlier successful finish consumed.
C14_ConsumedChallenge ==
  /\ last.kind = "RegisterFinish"
  /\ last.outcome = "InvalidCeremonyState"
  /\ UserIdx(last.username) # 0
  /\ users[UserIdx(last.username)].currentChallenge = NoChallenge
  /\ users[UserIdx(last.username)].authenticators # <<>>

\* C15: AuthenticateBegin for a username that has no record is answered
\* UserNotFound and changes nothing (no user, no challenge, no pending call);
\* no other call and no other failure is answered UserNotFound.
C15_UnknownUser ==
  [][/\ \A u \in Usernames :
          (UserIdx(u) = 0 /\ AuthBeginStart(u)) =>
             /\ last' = Reply("AuthBegin", u, "UserNotFound")
             /\ UNCHANGED <<users, globalChallenge, calls, issued>>
     /\ last'.outcome = "UserNotFound" =>
          /\ last'.kind = "AuthBegin"
          /\ last'.username \in Usernames
          /\ UserIdx(last'.username) = 0]_vars

\* AuthenticateBegin was answered UserNotFound for one username while another
\* user is registered.
C15_UnknownAmongKnown ==
  /\ last.kind = "AuthBegin"
  /\ last.outcome = "UserNotFound"
  /\ UserIdx(last.username) = 0
  /\ \E i \in 1..Len(users) : users[i].authenticators # <<>>

\* C16: RegisterBegin with an empty username is answered InvalidInput and
\* changes nothing: no user record, no challenge, no pending call; and no user
\* record ever carries the empty username.
C16_EmptyUsername ==
  /\ [](\A i \in 1..Len(users) : users[i].username # "")
  /\ [][RegisterBeginStart("") =>
          /\ last' = Reply("RegisterBegin", "", "InvalidInput")
          /\ UNCHANGED <<users, globalChallenge, calls, issued>>]_vars

\* RegisterBegin was answered InvalidInput while a user has a challenge bound.
C16_EmptyRejected ==
  /\ last.kind = "RegisterBegin"
  /\ last.outcome = "InvalidInput"
  /\ \E i \in 1..Len(users) : users[i].currentChallenge # NoChallenge

\* C17: with a challenge bound to the named user, AuthenticateFinish returns
\* AuthenticatorNotFound when that user holds no credential with the asserted
\* ID, whoever else holds one; with a challenge in the global slot, the
\* discoverable finish returns AuthenticatorNotFound exactly when no user
\* holds one; a login answered AuthenticatorNotFound changes no state.
C17_AuthenticatorLookup ==
  /\ [](\A r \in Responses :
          /\ \A u \in Usernames :
               (/\ UserIdx(u) # 0
                /\ users[UserIdx(u)].currentChallenge # NoChallenge
                /\ ~Owns(users[UserIdx(u)], r.id)) =>
                   AuthFinishCheck(u, r) = "AuthenticatorNotFound"
          /\ globalChallenge # NoChallenge =>
               (DiscFinishCheck(r) = "AuthenticatorNotFound"
                  <=> ~\E i \in 1..Len(users) : Owns(users[i], r.id)))
  /\ [][(/\ last'.kind \in {"AuthFinish", "DiscFinish"}
         /\ last'.outcome = "AuthenticatorNotFound") =>
           UNCHANGED <<users, globalChallenge, calls, issued>>]_vars

\* A login by name was answered AuthenticatorNotFound for a credential ID that
\* another user holds, while the second user of the Map holds one that the
\* first does not.
C17_OtherUsersCredential ==
  /\ last.kind = "AuthFinish"
  /\ last.outcome = "AuthenticatorNotFound"
  /\ Len(users) = 2
  /\ \E r \in Responses :
       /\ AuthFinishCheck(last.username, r) = "AuthenticatorNotFound"
       /\ \E i \in 1..Len(users) : Owns(users[i], r.id)
  /\ \E id \in CredIDs : Owns(users[2], id) /\ ~Owns(users[1], id)

\* The IDs of the credentials stored for a username, in the order stored.
StoredIDs(us, username) ==
  LET i == CHOOSE i \in 1..Len(us) : us[i].username = username
  IN [j \in 1..Len(us[i].authenticators) |->
        us[i].authenticators[j].credentialID]

\* C18: when RegisterBegin or AuthenticateBegin goes to the library, the
\* credential list in its opts is the list of the IDs stored for its user at
\* that moment, and the discoverable begin's list is empty; the options a begin
\* returns carry the list of its opts.
C18_OptionsCredentialList ==
  [][/\ \A c \in BagToSet(calls') :
          calls' = Suspend(c) =>
             /\ c.kind \in {"RegisterBegin", "AuthBegin"} =>
                   c.credentials = StoredIDs(users', c.username)
             /\ c.kind = "DiscBegin" => c.credentials = <<>>
     /\ \A c \in InFlight :
          (calls' = Resume(c) /\ last'.outcome = "options") =>
             last'.credentials = c.credentials]_vars

\* AuthenticateBegin returned options listing exactly the one credential
\* stored for its user.
C18_OneCredentialAllowed ==
  /\ last.kind = "AuthBegin"
  /\ last.outcome = "options"
  /\ Len(last.credentials) = 1
  /\ last.credentials = StoredIDs(users, last.username)

BoundKinds == {"RegisterBegin", "RegisterFinish", "AuthBegin", "AuthFinish"}

\* C19: a step of a call made with a username (the part of the handler up to
\* its await or early return, and the part after the await) leaves the record
\* of every user with another username as it was.
C19_OtherUsersUntouched ==
  [][/\ last'.kind \in BoundKinds =>
          \A i \in 1..Len(users) :
             users[i].username # last'.username => users'[i] = users[i]
     /\ \A c \in BagToSet(calls') :
          (calls' = Suspend(c) /\ c.kind \in BoundKinds) =>
             \A i \in 1..Len(users) :
                users[i].username # c.username => users'[i] = users[i]]_vars

\* A registration verified for one user while the other user has a
\* credential and a challenge bound.
C19_RegistrationBesideAnotherUser ==
  /\ last.kind = "RegisterFinish"
  /\ last.outcome = "verified"
  /\ \E i \in 1..Len(users) :
       /\ users[i].username # last.username
       /\ users[i].authenticators # <<>>
       /\ users[i].currentChallenge # NoChallenge

\* C20: when register/finish answers verified for a user, the registration
\* info carries the ID and counter of the posted attestation, and the step
\* that answers appends exactly one credential with that ID and counter after
\* the credentials the user had, and leaves no challenge bound to the user.
C20_VerifiedRegistration ==
  /\ [](\A username \in Usernames, resp \in Responses :
          (/\ RegisterFinishCheck(username, resp) = "await"
           /\ RegisterFinishCall(username, resp).verification.result
                = "verified") =>
             /\ RegisterFinishCall(username, resp).verification.id = resp.id
             /\ RegisterFinishCall(username, resp).verification.counter
                  = resp.counter)
  /\ [][\A c \in InFlight :
          (/\ calls' = Resume(c)
           /\ last'.kind = "RegisterFinish"
           /\ last'.outcome = "verified") =>
             /\ Len(users'[c.owner].authenticators)
                  = Len(users[c.owner].authenticators) + 1
             /\ SubSeq(users'[c.owner].authenticators, 1,
                       Len(users[c.owner].authenticators))
                  = users[c.owner].authenticators
             /\ users'[c.owner].authenticators[
                  Len(users'[c.owner].authenticators)].credentialID
                  = c.verification.id
             /\ users'[c.owner].authenticators[
                  Len(users'[c.owner].authenticators)].counter
                  = c.verification.counter
             /\ users'[c.owner].currentChallenge = NoChallenge
             /\ users'[c.owner].username = last'.username]_vars

\* A second, different credential registered for a user.
C20_SecondCredentialAppended ==
  /\ last.kind = "RegisterFinish"
  /\ last.outcome = "verified"
  /\ \E i \in 1..Len(users) :
       /\ users[i].username = last.username
       /\ Len(users[i].authenticators) = 2
       /\ users[i].authenticators[1].credentialID
            # users[i].authenticators[2].credentialID
       /\ users[i].currentChallenge = NoChallenge

\* C21: no two finishes on one scope (a user, or the global slot) answer
\* verified against the same challenge: when a finish answers verified right
\* after another finish on its scope did, the two were verified against
\* different challenges (so a pair of registrations over one challenge stores
\* one credential at most).
C21_ChallengeConsumedOnce ==
  [][(/\ last.kind \in FinishKinds
      /\ last.outcome = "verified"
      /\ last'.kind \in FinishKinds
      /\ last'.outcome = "verified"
      /\ (last'.kind = "DiscFinish") = (last.kind = "DiscFinish")
      /\ last'.username = last.username) =>
        last'.challenge # last.challenge]_vars

\* C22: a finish completes only the kind of ceremony that issued its
\* challenge: once AuthenticateBegin has answered for a user, binding its
\* challenge, no attestation a client can post makes RegisterFinish for that
\* user go to a verification that succeeds, and once RegisterBegin has
\* answered, no assertion makes AuthenticateFinish do so.
C22_CeremonyKindBound ==
  /\ (last.kind = "AuthBegin" /\ last.outcome = "options") =>
        \A r \in Attestations :
           ~(/\ RegisterFinishCheck(last.username, r) = "await"
             /\ RegisterFinishCall(last.username, r).verification.result
                  = "verified")
  /\ (last.kind = "RegisterBegin" /\ last.outcome = "options") =>
        \A r \in Assertions :
           ~(/\ AuthFinishCheck(last.username, r) = "await"
             /\ AuthFinishCall(last.username, r).verification.result
                  = "verified")

DiscKinds == {"DiscBegin", "DiscFinish"}

\* Every user's bound challenge.
BoundChallenges(us) == [i \in 1..Len(us) |-> us[i].currentChallenge]

\* C23: the global slot and the users' challenges are disjoint scopes: no
\* assertion over a challenge bound to a user goes to a successful
\* verification in the discoverable finish, and none over the global challenge
\* in a finish by name; a step of a discoverable call leaves every user's
\* bound challenge as it was, a step of a call by name leaves the global slot
\* as it was, and a finish that answers verified was not verified against a
\* challenge of the other scope.
C23_ScopesDisjoint ==
  /\ [](\A r \in Assertions :
          /\ (\E i \in 1..Len(users) :
                /\ users[i].currentChallenge # NoChallenge
                /\ users[i].currentChallenge = r.challenge) =>
                ~(/\ DiscFinishCheck(r) = "await"
                  /\ DiscFinishCall(r).verification.result = "verified")
          /\ (globalChallenge # NoChallenge /\ r.challenge = globalChallenge) =>
                \A u \in Usernames :
                   /\ ~(/\ AuthFinishCheck(u, r) = "await"
                        /\ AuthFinishCall(u, r).verification.result = "verified")
                   /\ ~(/\ RegisterFinishCheck(u, r) = "await"
                        /\ RegisterFinishCall(u, r).verification.result
                             = "verified"))
  /\ [][/\ last'.kind \in DiscKinds =>
             BoundChallenges(users') = BoundChallenges(users)
        /\ last'.kind \in BoundKinds => globalChallenge' = globalChallenge
        /\ \A c \in BagToSet(calls') :
             calls' = Suspend(c) =>
                /\ c.kind \in DiscKinds =>
                     BoundChallenges(users') = BoundChallenges(users)
                /\ c.kind \in BoundKinds => globalChallenge' = globalChallenge
        /\ (last'.kind = "DiscFinish" /\ last'.outcome = "verified") =>
             \A i \in 1..Len(users) :
                users[i].currentChallenge # last'.challenge
        /\ (last'.kind \in BoundKinds /\ last'.outcome = "verified") =>
             globalChallenge # last'.challenge]_vars

\* A login by name verified while a discoverable login's challenge sits in
\* the global slot.
C23_LoginBesideGlobalChallenge ==
  /\ last.kind = "AuthFinish"
  /\ last.outcome = "verified"
  /\ globalChallenge # NoChallenge

\* C24: the store only grows: no step removes a user or changes a user's id
\* or username, and no step removes a credential from a user's collection or
\* changes a credential's ID or public key; what a step may change in a record
\* that exists is the bound challenge and a credential's counter.
C24_StoreOnlyGrows ==
  [][/\ Len(users') >= Len(users)
     /\ \A i \in 1..Len(users) :
          /\ users'[i].id = users[i].id
          /\ users'[i].username = users[i].username
          /\ Len(users'[i].authenticators) >= Len(users[i].authenticators)
          /\ \A j \in 1..Len(users[i].authenticators) :
               /\ users'[i].authenticators[j].credentialID
                    = users[i].authenticators[j].credentialID
               /\ users'[i].authenticators[j].credentialPublicKey
                    = users[i].authenticators[j].credentialPublicKey]_vars

\* Two users, each with a credential, after a discoverable login wrote a
\* counter.
C24_GrownStore ==
  /\ last.kind = "DiscFinish"
  /\ last.outcome = "verified"
  /\ Len(users) = 2
  /\ \A i \in 1..Len(users) : users[i].authenticators # <<>>
  /\ \E i \in 1..Len(users) : users[i].authenticators[1].counter > 0

\* A request the server takes: any route, any body.
Arrival ==
  /\ Accept(MaxInFlight)
  /\ \/ \E u \in Usernames \cup {""} : RegisterBeginStart(u) \/ AuthBeginStart(u)
     \/ \E q \in FinishRequests(Usernames, Presentable) :
          RegisterFinishStart(q[1], q[2]) \/ AuthFinishStart(q[1], q[2])
     \/ DiscBeginStart
     \/ \E r \in Presentable \cup {NoResp} : DiscFinishStart(r)

\* C25: every call is answered exactly once and on its own: a step either
\* suspends one handler without a response, or sends one response, of a
\* handler that returns early or of one suspended handler that resumes; a
\* suspended handler can resume whatever else is suspended, and does: a call
\* suspended on a route leads to that route's response, a rejected
\* verification included; and after any response the server can take a
\* further request.
C25_EveryCallAnswered ==
  /\ [][\/ /\ last' = NoCall
           /\ \E c \in BagToSet(calls') : calls' = Suspend(c)
        \/ /\ last' # NoCall
           /\ last'.outcome # "none"
           /\ \/ calls' = calls
              \/ \E c \in InFlight :
                   calls' = Resume(c) /\ c.kind = last'.kind]_vars
  /\ [](\A c \in InFlight : ENABLED Completion(c))
  /\ [](last # NoCall => ENABLED Arrival)
  /\ \A k \in Routes :
       (Suspended({k}) > 0) ~> (Suspended({k}) = 0 /\ last.kind = k)

\* A finish answered from its catch while a handler of another route is
\* suspended.
C25_ThrewBesideSuspended ==
  /\ last.outcome = "InternalError"
  /\ calls # EmptyBag

====
